---- MODULE Spec2Model ----
(***************************************************************************)
(* The adynamicequalizer filter node (libavfilter/af_adynamicequalizer.c)  *)
(* and the three links it is attached to: its main input, its optional     *)
(* sidechain input and its output.  The node's callbacks (config_output,   *)
(* filter_frame, activate, uninit) are translated from the filter's        *)
(* source; the link layer they call (the frame queue, the status flags and *)
(* the request flags of FilterLinkInternal) follows the link contract.     *)
(***************************************************************************)
EXTENDS Integers, Sequences, FiniteSets, TLC

VARIABLES
    links,        \* "in", "sc", "out" |-> FilterLinkInternal
    sidechain,    \* s->sidechain (option, fixed before init)
    nb_out,       \* outlink->ch_layout.nb_channels, fixed by negotiation
    format,       \* outlink->format, fixed by negotiation
    phase,        \* "init", "configured", "config_failed", "failed", "uninit"
    s_in,         \* s->in
    s_sc,         \* s->sc
    s_cc,         \* s->cc: <<>> when NULL, else one record per channel
    s_cc_alloc,   \* s->cc # NULL
    s_nb_channels,\* s->nb_channels
    s_filter,     \* s->filter_prepare / s->filter_channels: "none", "float", "double"
    freed,        \* frames released so far (av_frame_free)
    pushedN,      \* frames / samples upstream has pushed, per input link
    outs,         \* how many frames the node has pushed downstream
    taken,        \* how many main frames and sidechain chunks the node has taken
    act,          \* observation of the activation that has just returned
    obs,          \* observation of the link operation that has just returned
    coef,         \* the last evaluation of get_coef: its arguments and result
    heap,         \* the ChannelContext array and the ring buffers: live / released
    s_dattack,    \* s->dattack, an option that can be set while running
    exec          \* one run of filter_frame's processing stage, job by job

vars == <<links, sidechain, nb_out, format, phase, s_in, s_sc, s_cc, s_cc_alloc,
          s_nb_channels, s_filter, freed, pushedN, outs, taken, act, obs, coef,
          heap, s_dattack, exec>>

(***************************************************************************)
(* Bounds of the model.                                                    *)
(***************************************************************************)
MaxFrames == 2
MaxScFrames == 2
MaxSamples == 2
MaxChannels == 2

(***************************************************************************)
(* Return and status codes.                                                *)
(***************************************************************************)
AVERROR_ENOMEM == -12
AVERROR_EIO == -5
AVERROR_EOF == -541478725
FFERROR_NOT_READY == -542398533

Codes == {AVERROR_EOF, AVERROR_EIO}

NULL == [seq |-> 0, off |-> 0, nb_samples |-> 0, nb_channels |-> 0, buf |-> "none"]

MIN(a, b) == IF a < b THEN a ELSE b

(***************************************************************************)
(* The link layer.                                                         *)
(***************************************************************************)
FilterLinkInternal ==
    [fifo |-> <<>>, samples_skipped |-> 0, frame_blocked_in |-> FALSE,
     status_in |-> 0, status_in_pts |-> 0, status_out |-> 0,
     frame_wanted_out |-> FALSE]

RECURSIVE ff_framequeue_queued_samples(_)
ff_framequeue_queued_samples(q) ==
    IF q = <<>> THEN 0
    ELSE Head(q).nb_samples + ff_framequeue_queued_samples(Tail(q))

queued_samples(l) == ff_framequeue_queued_samples(l.fifo) - l.samples_skipped

ff_filter_frame_unchecked(l, frame) ==
    [link |-> [l EXCEPT !.fifo = Append(@, frame)], ret |-> 0]

\* push(frame)
ff_filter_frame(l, frame) ==
    IF l.status_in # 0
    THEN [link |-> l, ret |-> l.status_in]
    ELSE [link |-> [l EXCEPT !.fifo = Append(@, frame),
                             !.frame_wanted_out = FALSE,
                             !.frame_blocked_in = FALSE],
          ret |-> 0]

\* the frame part of try_pull
ff_inlink_consume_frame(l) ==
    IF l.fifo # <<>>
    THEN [link |-> [l EXCEPT !.fifo = Tail(@)], frame |-> Head(l.fifo), ret |-> 1]
    ELSE [link |-> l, frame |-> NULL, ret |-> 0]

RECURSIVE take_samples(_, _, _)
\* drops n samples from the head of queue q, of whose head frame `skipped`
\* samples are gone already; returns the queue and the new skipped count
take_samples(q, skipped, n) ==
    IF n = 0 THEN [fifo |-> q, samples_skipped |-> skipped]
    ELSE LET avail == Head(q).nb_samples - skipped IN
         IF n >= avail THEN take_samples(Tail(q), 0, n - avail)
         ELSE [fifo |-> q, samples_skipped |-> skipped + n]

\* pull between min and max samples; 0 when fewer than min are queued
ff_inlink_consume_samples(l, min, max) ==
    IF queued_samples(l) < min
    THEN [link |-> l, frame |-> NULL, ret |-> 0]
    ELSE LET n == MIN(max, queued_samples(l))
             t == take_samples(l.fifo, l.samples_skipped, n)
         IN [link |-> [l EXCEPT !.fifo = t.fifo, !.samples_skipped = t.samples_skipped],
             frame |-> [seq |-> Head(l.fifo).seq,
                        off |-> Head(l.fifo).off + l.samples_skipped,
                        nb_samples |-> n,
                        nb_channels |-> Head(l.fifo).nb_channels,
                        buf |-> "sc"],
             ret |-> 1]

\* the status part of try_pull: a status is reported once the queue is empty
ff_inlink_acknowledge_status(l) ==
    l.fifo = <<>> /\ l.status_out = 0 /\ l.status_in # 0

\* forward_status(code, timestamp) onto a link's status_in
ff_outlink_set_status(l, status, pts) ==
    IF l.status_in # 0 THEN l
    ELSE [l EXCEPT !.status_in = status, !.status_in_pts = pts,
                   !.frame_wanted_out = FALSE, !.frame_blocked_in = FALSE]

\* set_status_out(code)
ff_inlink_set_status(l, status) ==
    IF l.status_out # 0 THEN l
    ELSE [l EXCEPT !.status_out = status,
                   !.status_in = IF @ = 0 THEN status ELSE @,
                   !.fifo = <<>>, !.samples_skipped = 0,
                   !.frame_wanted_out = FALSE, !.frame_blocked_in = FALSE]

\* a request for a frame on a link: refused with status_out once it is set
ff_request_frame(l) == IF l.status_out # 0 THEN l.status_out ELSE 0

\* try_pull() -> Frame | NotReady | Status
try_pull(l) ==
    IF l.fifo # <<>>
    THEN [link |-> [l EXCEPT !.fifo = Tail(@)], frame |-> Head(l.fifo), ret |-> 1]
    ELSE IF l.status_in # 0
    THEN [link |-> [l EXCEPT !.status_out = l.status_in], frame |-> NULL,
          ret |-> l.status_in]
    ELSE [link |-> [l EXCEPT !.frame_blocked_in = TRUE], frame |-> NULL,
          ret |-> FFERROR_NOT_READY]

(***************************************************************************)
(* Bookkeeping of frame references: which frames were released, and which  *)
(* were released more than once.                                           *)
(***************************************************************************)
av_frame_free(f, frame) ==
    IF frame = NULL THEN f
    ELSE [set |-> f.set \cup {<<frame.buf, frame.seq>>},
          twice |-> IF <<frame.buf, frame.seq>> \in f.set
                    THEN f.twice \cup {<<frame.buf, frame.seq>>}
                    ELSE f.twice]

(***************************************************************************)
(* What an activation did; cleared by every other operation.               *)
(***************************************************************************)
ActNone ==
    [kind |-> "none", ret |-> 0, back |-> FALSE, took_in |-> NULL, took_sc |-> NULL,
     in0 |-> NULL, in |-> NULL, sc |-> NULL, sc_queued |-> -1, stage |-> "none",
     writable |-> FALSE, alloc_ok |-> TRUE, fail |-> 0, pushed |-> <<>>, status_from |-> "none", requested |-> "none",
     prepared |-> 0, jobs |-> 0, out |-> NULL, progress |-> FALSE]

CoefNone == [x |-> 0, sr |-> 0, val |-> 0]

ObsNone == [kind |-> "none", link |-> "none", ret |-> 0]

(***************************************************************************)
(* The filter node.                                                        *)
(***************************************************************************)
Inputs == IF sidechain THEN {"in", "sc"} ELSE {"in"}

\* ff_filter_get_nb_threads(ctx): the graph's worker count
MaxThreads == 2

nb_jobs_threads(channels, threads) == threads

\* line 235: the number of jobs handed to ff_filter_execute
nb_jobs(channels, threads) == MIN(channels, threads)

get_out_in_place(in, writable, alloc_ok) == in

get_out_one_sample(in, writable, alloc_ok) ==
    IF writable THEN in
    ELSE IF ~alloc_ok THEN NULL
    ELSE [seq |-> in.seq, off |-> in.off, nb_samples |-> 1,
          nb_channels |-> nb_out, buf |-> "new"]

\* lines 219-228: the frame the result is written to (NULL: allocation failed)
get_out(in, writable, alloc_ok) ==
    IF writable THEN in
    ELSE IF ~alloc_ok THEN NULL
    ELSE [seq |-> in.seq, off |-> in.off, nb_samples |-> in.nb_samples,
          nb_channels |-> nb_out, buf |-> "new"]

no_buffer_ignored(c, in) ==
    [c EXCEPT !.freed = av_frame_free(@, in), !.a.ret = 0]

\* lines 223-226: ff_get_audio_buffer returned NULL
no_buffer(c, in) ==
    [c EXCEPT !.freed = av_frame_free(@, in),
              !.a.fail = AVERROR_ENOMEM, !.a.ret = AVERROR_ENOMEM]

filter_frame(c, in, sc, writable, alloc_ok) ==
    LET out == get_out(in, writable, alloc_ok) IN
    IF out = NULL
    THEN no_buffer([c EXCEPT !.a.in = in, !.a.sc = sc,
                             !.a.stage = "filter_frame", !.a.writable = writable,
                             !.a.alloc_ok = alloc_ok], in)
    ELSE LET r == ff_filter_frame(c.links["out"], out) IN
         [c EXCEPT !.links["out"] = r.link,
                   !.freed = av_frame_free(IF out # in THEN av_frame_free(@, c.s_in) ELSE @,
                                           c.s_sc),
                   !.s_in = NULL,
                   !.s_sc = NULL,
                   !.outs = IF r.ret = 0 THEN @ + 1 ELSE @,
                   !.a.stage = "filter_frame", !.a.writable = writable,
                   !.a.alloc_ok = alloc_ok,
                   !.a.in = in, !.a.sc = sc,
                   !.a.prepared = 1, !.a.jobs = nb_jobs(nb_out, MaxThreads),
                   !.a.out = out,
                   !.a.pushed = IF r.ret = 0 THEN <<out>> ELSE <<>>,
                   !.a.fail = IF r.ret < 0 THEN r.ret ELSE 0,
                   !.a.ret = r.ret]

FF_FILTER_FORWARD_STATUS_BACK_ALL_consumed(c) ==
    [c EXCEPT !.links = [k \in DOMAIN c.links |->
                            IF k \in Inputs
                            THEN ff_inlink_set_status(c.links[k], c.links["out"].status_in)
                            ELSE [c.links[k] EXCEPT !.status_in = 0, !.status_in_pts = 0]],
              !.a.back = TRUE, !.a.ret = 0]

\* FF_FILTER_FORWARD_STATUS_BACK_ALL(outlink, ctx)
FF_FILTER_FORWARD_STATUS_BACK_ALL(c) ==
    [c EXCEPT !.links = [k \in DOMAIN c.links |->
                            IF k \in Inputs
                            THEN ff_inlink_set_status(c.links[k], c.links["out"].status_in)
                            ELSE c.links[k]],
              !.a.back = TRUE, !.a.ret = 0]

\* FF_FILTER_FORWARD_STATUS(k, outlink), when the status of k is due
FF_FILTER_FORWARD_STATUS(c, k) ==
    [c EXCEPT !.links = [@ EXCEPT ![k].status_out = c.links[k].status_in,
                                  !["out"] = ff_outlink_set_status(@, c.links[k].status_in,
                                                                   c.links[k].status_in_pts)],
              !.a.status_from = k, !.a.ret = 0]

\* FF_FILTER_FORWARD_WANTED(outlink, k), when the output wants a frame
FF_FILTER_FORWARD_WANTED(c, k) ==
    [c EXCEPT !.links[k].frame_wanted_out = TRUE,
              !.a.requested = k, !.a.ret = 0]

\* the two macros in a row, then `return ret`
forward(c, k, ret) ==
    IF ff_inlink_acknowledge_status(c.links[k]) THEN FF_FILTER_FORWARD_STATUS(c, k)
    ELSE IF c.links["out"].frame_wanted_out THEN FF_FILTER_FORWARD_WANTED(c, k)
    ELSE [c EXCEPT !.a.ret = ret]

\* lines 261-262: the sample counts asked of the sidechain link
sc_min_one(in) == 1

sc_min(in) == in.nb_samples
sc_max_more(in) == in.nb_samples + 1

sc_max(in) == in.nb_samples

\* line 269: the result of a deferred activation
defer_ret == 0

activate_main_status_first(c, fault) ==
    IF c.s_in # NULL \/ c.links["in"].status_in # 0 THEN c
    ELSE LET p == IF fault = "main" THEN [ret |-> AVERROR_ENOMEM]
                  ELSE ff_inlink_consume_frame(c.links["in"]) IN
         IF p.ret < 0 THEN [c EXCEPT !.a.fail = p.ret, !.a.ret = p.ret]
         ELSE [c EXCEPT !.links["in"] = p.link, !.s_in = p.frame,
                        !.taken.main = IF p.ret = 1 THEN @ + 1 ELSE @,
                        !.a.took_in = p.frame]

\* lines 252-256
activate_main(c, fault) ==
    IF c.s_in # NULL THEN c
    ELSE LET p == IF fault = "main" THEN [ret |-> AVERROR_ENOMEM]
                  ELSE ff_inlink_consume_frame(c.links["in"]) IN
         IF p.ret < 0 THEN [c EXCEPT !.a.fail = p.ret, !.a.ret = p.ret]
         ELSE [c EXCEPT !.links["in"] = p.link, !.s_in = p.frame,
                        !.taken.main = IF p.ret = 1 THEN @ + 1 ELSE @,
                        !.a.took_in = p.frame]

activate_sc_forward_main(c, fault) ==
    LET p == IF fault = "sc" THEN [ret |-> AVERROR_ENOMEM]
             ELSE ff_inlink_consume_samples(c.links["sc"], sc_min(c.s_in), sc_max(c.s_in))
        c1 == [c EXCEPT !.a.in = c.s_in, !.a.sc_queued = queued_samples(c.links["sc"])]
    IN
    IF p.ret < 0 THEN [c1 EXCEPT !.a.fail = p.ret, !.a.ret = p.ret]
    ELSE IF p.ret = 0 THEN forward([c1 EXCEPT !.a.stage = "defer"], "in", defer_ret)
    ELSE [c1 EXCEPT !.links["sc"] = p.link,
                    !.s_sc = [p.frame EXCEPT !.seq = c.taken.sc + 1],
                    !.taken.sc = @ + 1,
                    !.a.took_sc = [p.frame EXCEPT !.seq = c.taken.sc + 1]]

\* lines 259-271
activate_sc(c, fault) ==
    LET p == IF fault = "sc" THEN [ret |-> AVERROR_ENOMEM]
             ELSE ff_inlink_consume_samples(c.links["sc"], sc_min(c.s_in), sc_max(c.s_in))
        c1 == [c EXCEPT !.a.in = c.s_in, !.a.sc_queued = queued_samples(c.links["sc"])]
    IN
    IF p.ret < 0 THEN [c1 EXCEPT !.a.fail = p.ret, !.a.ret = p.ret]
    ELSE IF p.ret = 0 THEN forward([c1 EXCEPT !.a.stage = "defer"], "sc", defer_ret)
    ELSE [c1 EXCEPT !.links["sc"] = p.link,
                    !.s_sc = [p.frame EXCEPT !.seq = c.taken.sc + 1],
                    !.taken.sc = @ + 1,
                    !.a.took_sc = [p.frame EXCEPT !.seq = c.taken.sc + 1]]

activate_back_late(c, i) ==
    LET c1 == activate_main(c, i.fault) IN
    IF c1.a.fail # 0 THEN c1
    ELSE IF c1.links["out"].status_in # 0 THEN FF_FILTER_FORWARD_STATUS_BACK_ALL(c1)
    ELSE IF c1.s_in # NULL
    THEN IF sidechain /\ c1.s_sc = NULL
         THEN LET c2 == activate_sc(c1, i.fault) IN
              IF c2.a.fail # 0 \/ c2.s_sc = NULL THEN c2
              ELSE filter_frame(c2, c2.s_in, c2.s_sc, i.writable, i.alloc_ok)
         ELSE filter_frame(c1, c1.s_in, c1.s_sc, i.writable, i.alloc_ok)
    ELSE forward(c1, "in", FFERROR_NOT_READY)

\* lines 244-280
activate(c, i) ==
    IF c.links["out"].status_in # 0 THEN FF_FILTER_FORWARD_STATUS_BACK_ALL(c)
    ELSE LET c1 == activate_main(c, i.fault) IN
         IF c1.a.fail # 0 THEN c1
         ELSE IF c1.s_in # NULL
         THEN IF sidechain /\ c1.s_sc = NULL
              THEN LET c2 == activate_sc(c1, i.fault) IN
                   IF c2.a.fail # 0 \/ c2.s_sc = NULL THEN c2
                   ELSE filter_frame(c2, c2.s_in, c2.s_sc, i.writable, i.alloc_ok)
              ELSE filter_frame(c1, c1.s_in, c1.s_sc, i.writable, i.alloc_ok)
         ELSE forward(c1, "in", FFERROR_NOT_READY)

(***************************************************************************)
(* get_coef, in fixed point: a real r is the integer r * ONE, rounded      *)
(* down.  Times are in milliseconds and sample rates in kHz, so that       *)
(* 0.001 * x * sr of the source is the integer x * sr.                     *)
(***************************************************************************)
ONE == 2^15

MaxTime == 10
MaxRate == 10

Times == 1..MaxTime
SampleRates == 1..MaxRate

mulf(a, b) == (a * b) \div ONE

RECURSIVE exp_neg(_)
\* exp(-u) for u >= 0: the alternating series to the fifth power on [0, 1],
\* the square of exp(-u/2) above
exp_neg(u) ==
    IF u > ONE
    THEN mulf(exp_neg(u \div 2), exp_neg(u \div 2))
    ELSE LET p5 == ONE - (u \div 5)
             p4 == ONE - (mulf(u, p5) \div 4)
             p3 == ONE - (mulf(u, p4) \div 3)
             p2 == ONE - (mulf(u, p3) \div 2)
         IN ONE - mulf(u, p2)

get_coef_plain(x, sr) == exp_neg(ONE \div (x * sr))

get_coef(x, sr) == ONE - exp_neg(ONE \div (x * sr))

(***************************************************************************)
(* Configuration and teardown.                                             *)
(***************************************************************************)
\* what config_output's allocations may do: all succeed, the ChannelContext
\* array fails, or a ring buffer of channel ch fails
AllocOutcomes ==
    {<<"ok", 0>>, <<"cc", 0>>}
        \cup {<<b, ch>> : b \in {"queue", "dqueue"}, ch \in 1..MaxChannels}

\* lines 200-206: the array after the loop that fails as `how` says
alloc_rings(n, how) ==
    [ch \in 1..n |->
        [queue  |-> \/ how[1] = "ok"
                    \/ ch < how[2]
                    \/ (ch = how[2] /\ how[1] = "dqueue"),
         dqueue |-> \/ how[1] = "ok"
                    \/ ch < how[2]
                    \/ (ch = how[2] /\ how[1] = "queue")]]

nb_channels_early(how, old, n) == n

\* lines 184-187: s->nb_channels is assigned after the array was obtained
nb_channels_after(how, old, n) == IF how[1] = "cc" THEN old ELSE n

HeapNone == [cc |-> "none", rings |-> {}, released |-> {}, null_deref |-> FALSE]

\* the ring buffers that the entries 1..n of array cc point to
rings_of(cc, n) ==
    {<<ch, b>> \in (1..MIN(n, Len(cc))) \X {"queue", "dqueue"} : cc[ch][b]}

select_filter_float(fmt) == "float"

\* lines 189-198
select_filter(fmt) ==
    CASE fmt = "DBLP" -> "double"
      [] fmt = "FLTP" -> "float"
      [] OTHER -> "none"

config_output(how) ==
    /\ phase = "init"
    /\ how[2] <= nb_out
    /\ IF how[1] = "cc"
       THEN /\ phase' = "config_failed"
            /\ s_nb_channels' = nb_channels_after(how, s_nb_channels, nb_out)
            /\ UNCHANGED <<s_cc, s_cc_alloc, s_filter, heap>>
       ELSE /\ s_cc_alloc' = TRUE
            /\ s_nb_channels' = nb_channels_after(how, s_nb_channels, nb_out)
            /\ s_filter' = select_filter(format)
            /\ s_cc' = alloc_rings(nb_out, how)
            /\ heap' = [heap EXCEPT !.cc = "live",
                                    !.rings = rings_of(alloc_rings(nb_out, how), nb_out)]
            /\ phase' = IF how[1] = "ok" THEN "configured" ELSE "config_failed"
    /\ act' = ActNone
    /\ obs' = ObsNone
    /\ UNCHANGED <<links, sidechain, nb_out, format, s_in, s_sc, freed, pushedN,
                   outs, taken, coef, s_dattack, exec>>

uninit ==
    /\ phase # "uninit"
    /\ freed' = av_frame_free(av_frame_free(freed, s_in), s_sc)
    /\ s_in' = NULL
    /\ s_sc' = NULL
    /\ heap' = [heap EXCEPT
                   !.null_deref = (s_nb_channels > 0 /\ ~s_cc_alloc),
                   !.released = rings_of(s_cc, s_nb_channels),
                   !.cc = IF s_cc_alloc THEN "released" ELSE @]
    /\ s_cc' = <<>>
    /\ s_cc_alloc' = FALSE
    /\ phase' = "uninit"
    /\ act' = ActNone
    /\ obs' = ObsNone
    /\ UNCHANGED <<links, sidechain, nb_out, format, s_nb_channels, s_filter,
                   pushedN, outs, taken, coef, s_dattack, exec>>

(***************************************************************************)
(* One activation of the node by the scheduler.                            *)
(***************************************************************************)
\* what an activation cannot decide by itself: whether the held buffer has
\* another referent, whether ff_get_audio_buffer succeeds, and whether a pull
\* on the main or the sidechain input fails for want of memory
ActInputs ==
    {[writable |-> TRUE, alloc_ok |-> TRUE, fault |-> "none"],
     [writable |-> FALSE, alloc_ok |-> TRUE, fault |-> "none"],
     [writable |-> FALSE, alloc_ok |-> FALSE, fault |-> "none"],
     [writable |-> TRUE, alloc_ok |-> TRUE, fault |-> "main"],
     [writable |-> TRUE, alloc_ok |-> TRUE, fault |-> "sc"]}

Ctx == [links |-> links, s_in |-> s_in, s_sc |-> s_sc, freed |-> freed,
        outs |-> outs, taken |-> taken,
        a |-> [ActNone EXCEPT !.kind = "activate", !.in0 = s_in]]

Activate ==
    /\ phase = "configured"
    /\ \E i \in ActInputs :
          \E c \in {activate(Ctx, i)} :
          /\ links' = c.links
          /\ s_in' = c.s_in
          /\ s_sc' = c.s_sc
          /\ freed' = c.freed
          /\ outs' = c.outs
          /\ taken' = c.taken
          /\ act' = [c.a EXCEPT !.progress =
                        \/ c.links # links \/ c.s_in # s_in \/ c.s_sc # s_sc
                        \/ c.outs # outs]
          /\ phase' = IF c.a.ret < 0 /\ c.a.ret # FFERROR_NOT_READY
                      THEN "failed" ELSE phase
    /\ obs' = ObsNone
    /\ UNCHANGED <<sidechain, nb_out, format, s_cc, s_cc_alloc, s_nb_channels,
                   s_filter, pushedN, coef, heap,
                   s_dattack, exec>>

\* values of the attack option
Attacks == {1, MaxTime}

\* a runtime parameter update: the attack option is set while the node runs
process_command(v) ==
    /\ phase \in {"init", "configured"}
    /\ s_dattack' = v
    /\ act' = ActNone
    /\ obs' = ObsNone
    /\ UNCHANGED <<links, sidechain, nb_out, format, phase, s_in, s_sc, s_cc,
                   s_cc_alloc, s_nb_channels, s_filter, freed, pushedN, outs,
                   taken, coef, heap, exec>>

(***************************************************************************)
(* The neighbours of the node: the producers of its inputs and the         *)
(* consumer of its output.                                                 *)
(***************************************************************************)
\* the sample counts of the frames the producers push
Sizes == {1, MaxSamples}

MaxOf(k) == IF k = "in" THEN MaxFrames ELSE MaxScFrames

UpstreamPush(k, n) ==
    /\ phase = "configured"
    /\ k \in Inputs
    /\ pushedN[k].frames < MaxOf(k)
    /\ LET frame == [seq |-> pushedN[k].frames + 1, off |-> pushedN[k].samples,
                     nb_samples |-> n, nb_channels |-> nb_out, buf |-> "up"]
           r == ff_filter_frame(links[k], frame)
       IN /\ links' = [links EXCEPT ![k] = r.link]
          /\ pushedN' = IF r.ret = 0
                        THEN [pushedN EXCEPT ![k] = [frames |-> @.frames + 1,
                                                     samples |-> @.samples + n]]
                        ELSE pushedN
          /\ obs' = [kind |-> "push", link |-> k, ret |-> r.ret]
    /\ act' = ActNone
    /\ UNCHANGED <<sidechain, nb_out, format, phase, s_in, s_sc, s_cc, s_cc_alloc,
                   s_nb_channels, s_filter, freed, outs, taken, coef, heap,
                   s_dattack, exec>>

UpstreamStatus(k, code) ==
    /\ phase = "configured"
    /\ k \in Inputs
    /\ links[k].status_in = 0
    /\ links' = [links EXCEPT ![k] = ff_outlink_set_status(@, code, pushedN[k].samples)]
    /\ act' = ActNone
    /\ obs' = ObsNone
    /\ UNCHANGED <<sidechain, nb_out, format, phase, s_in, s_sc, s_cc, s_cc_alloc,
                   s_nb_channels, s_filter, freed, pushedN, outs, taken, coef, heap,
                   s_dattack, exec>>

DownstreamRequest ==
    /\ phase = "configured"
    /\ links["out"].status_in = 0
    /\ links["out"].status_out = 0
    /\ links' = [links EXCEPT !["out"].frame_wanted_out = TRUE]
    /\ act' = ActNone
    /\ obs' = ObsNone
    /\ UNCHANGED <<sidechain, nb_out, format, phase, s_in, s_sc, s_cc, s_cc_alloc,
                   s_nb_channels, s_filter, freed, pushedN, outs, taken, coef, heap,
                   s_dattack, exec>>

DownstreamPull ==
    /\ phase = "configured"
    /\ LET r == try_pull(links["out"]) IN
       /\ links' = [links EXCEPT !["out"] = r.link]
       /\ obs' = [kind |-> "pull", link |-> "out", ret |-> r.ret]
    /\ act' = ActNone
    /\ UNCHANGED <<sidechain, nb_out, format, phase, s_in, s_sc, s_cc, s_cc_alloc,
                   s_nb_channels, s_filter, freed, pushedN, outs, taken, coef, heap,
                   s_dattack, exec>>

DownstreamClose(code) ==
    /\ phase = "configured"
    /\ links["out"].status_out = 0
    /\ links' = [links EXCEPT !["out"] = ff_inlink_set_status(@, code)]
    /\ act' = ActNone
    /\ obs' = ObsNone
    /\ UNCHANGED <<sidechain, nb_out, format, phase, s_in, s_sc, s_cc, s_cc_alloc,
                   s_nb_channels, s_filter, freed, pushedN, outs, taken, coef, heap,
                   s_dattack, exec>>

(***************************************************************************)
(* The processing stage of filter_frame, step by step: the preparation     *)
(* pass, then the channel jobs of ff_filter_execute in any interleaving,   *)
(* then the release of the held frames and the push.                       *)
(***************************************************************************)
ExecChannels == 4
ExecThreads == 3

ExecNone ==
    [pc |-> "idle", channels |-> 0, threads |-> 0, n |-> 0, attack |-> 0,
     da |-> 0, shared |-> <<>>, pos |-> <<>>, by |-> <<>>, out |-> <<>>,
     released |-> FALSE, pushed |-> FALSE]

\* the channels of job j out of n are start .. end - 1, counted from 0
slice_start(channels, j, n) == (channels * j) \div n

slice_end_overlap(channels, j, n) == MIN(channels, (channels * (j + 1)) \div n + 1)

slice_end(channels, j, n) == (channels * (j + 1)) \div n

\* lines 219-232: filter_frame has its output frame and fills ThreadData
ExecEnter(th) ==
    /\ phase = "configured"
    /\ exec.pc = "idle"
    /\ exec' = [ExecNone EXCEPT !.pc = "entered", !.channels = nb_out,
                                !.threads = th]
    /\ UNCHANGED <<links, sidechain, nb_out, format, phase, s_in, s_sc, s_cc,
                   s_cc_alloc, s_nb_channels, s_filter, freed, pushedN, outs,
                   taken, act, obs, coef, heap, s_dattack>>

\* line 233: the preparation pass computes the coefficients all channels share
filter_prepare ==
    /\ exec.pc = "entered"
    /\ exec' = [exec EXCEPT !.pc = "prepared",
                            !.attack = s_dattack,
                            !.da = get_coef(s_dattack, MaxRate),
                            !.shared = Append(@, "prepare")]
    /\ UNCHANGED <<links, sidechain, nb_out, format, phase, s_in, s_sc, s_cc,
                   s_cc_alloc, s_nb_channels, s_filter, freed, pushedN, outs,
                   taken, act, obs, coef, heap, s_dattack>>

\* lines 234-235: the jobs are submitted
ff_filter_execute ==
    /\ exec.pc = "prepared"
    /\ LET n == nb_jobs(exec.channels, exec.threads) IN
       exec' = [exec EXCEPT
                   !.pc = "running",
                   !.n = n,
                   !.pos = [j \in 0..(n - 1) |-> slice_start(exec.channels, j, n)],
                   !.by = [ch \in 0..(exec.channels - 1) |-> <<>>],
                   !.out = [ch \in 0..(exec.channels - 1) |-> 0]]
    /\ UNCHANGED <<links, sidechain, nb_out, format, phase, s_in, s_sc, s_cc,
                   s_cc_alloc, s_nb_channels, s_filter, freed, pushedN, outs,
                   taken, act, obs, coef, heap, s_dattack>>

\* job j processes the next channel of its slice: it updates that channel's
\* ChannelContext, reads the shared coefficients and writes that channel's
\* plane of the output frame
filter_channels(j) ==
    /\ exec.pc = "running"
    /\ j \in DOMAIN exec.pos
    /\ exec.pos[j] < slice_end(exec.channels, j, exec.n)
    /\ exec' = [exec EXCEPT !.by[exec.pos[j]] = Append(@, j),
                            !.out[exec.pos[j]] = exec.da,
                            !.pos[j] = @ + 1]
    /\ UNCHANGED <<links, sidechain, nb_out, format, phase, s_in, s_sc, s_cc,
                   s_cc_alloc, s_nb_channels, s_filter, freed, pushedN, outs,
                   taken, act, obs, coef, heap, s_dattack>>

\* lines 237-241: ff_filter_execute has returned; the held frames are
\* released and the output frame is pushed
ExecReturn ==
    /\ exec.pc = "running"
    /\ \A j \in DOMAIN exec.pos : exec.pos[j] >= slice_end(exec.channels, j, exec.n)
    /\ exec' = [exec EXCEPT !.pc = "returned", !.released = TRUE, !.pushed = TRUE]
    /\ UNCHANGED <<links, sidechain, nb_out, format, phase, s_in, s_sc, s_cc,
                   s_cc_alloc, s_nb_channels, s_filter, freed, pushedN, outs,
                   taken, act, obs, coef, heap, s_dattack>>

InitExec ==
    /\ links = [k \in {"in", "sc", "out"} |-> FilterLinkInternal]
    /\ sidechain = FALSE
    /\ nb_out \in 1..ExecChannels
    /\ format = "DBLP"
    /\ phase = "init"
    /\ s_in = NULL
    /\ s_sc = NULL
    /\ s_cc = <<>>
    /\ s_cc_alloc = FALSE
    /\ s_nb_channels = 0
    /\ s_filter = "none"
    /\ freed = [set |-> {}, twice |-> {}]
    /\ pushedN = [k \in {"in", "sc"} |-> [frames |-> 0, samples |-> 0]]
    /\ outs = 0
    /\ taken = [main |-> 0, sc |-> 0]
    /\ act = ActNone
    /\ obs = ObsNone
    /\ coef = CoefNone
    /\ heap = HeapNone
    /\ s_dattack = MaxTime
    /\ exec = ExecNone

NextExec ==
    \/ config_output(<<"ok", 0>>)
    \/ \E v \in Attacks : process_command(v)
    \/ \E th \in 1..ExecThreads : ExecEnter(th)
    \/ filter_prepare
    \/ ff_filter_execute
    \/ \E j \in 0..(ExecThreads - 1) : filter_channels(j)
    \/ ExecReturn

SpecExec == InitExec /\ [][NextExec]_vars

(***************************************************************************)
(* The specification.                                                      *)
(***************************************************************************)
\* the outcomes of format negotiation the model starts from
Negotiated ==
    {[nb_channels |-> 1, format |-> "FLTP"],
     [nb_channels |-> MaxChannels, format |-> "DBLP"]}

Init ==
    /\ links = [k \in {"in", "sc", "out"} |-> FilterLinkInternal]
    /\ sidechain \in BOOLEAN
    /\ \E n \in Negotiated : nb_out = n.nb_channels /\ format = n.format
    /\ phase = "init"
    /\ s_in = NULL
    /\ s_sc = NULL
    /\ s_cc = <<>>
    /\ s_cc_alloc = FALSE
    /\ s_nb_channels = 0
    /\ s_filter = "none"
    /\ freed = [set |-> {}, twice |-> {}]
    /\ pushedN = [k \in {"in", "sc"} |-> [frames |-> 0, samples |-> 0]]
    /\ outs = 0
    /\ taken = [main |-> 0, sc |-> 0]
    /\ act = ActNone
    /\ obs = ObsNone
    /\ coef = CoefNone
    /\ heap = HeapNone
    /\ s_dattack = MaxTime
    /\ exec = ExecNone

Next ==
    \/ \E how \in AllocOutcomes : config_output(how)
    \/ Activate
    \/ \E n \in Sizes : UpstreamPush("in", n)
    \/ UpstreamPush("sc", MaxSamples)
    \/ \E code \in Codes : UpstreamStatus("in", code)
    \/ UpstreamStatus("sc", AVERROR_EOF)
    \/ DownstreamRequest
    \/ DownstreamPull
    \/ DownstreamClose(AVERROR_EOF)
    \/ \E v \in Attacks : process_command(v)
    \/ uninit

Spec == Init /\ [][Next]_vars

(***************************************************************************)
(* Sidechain synchronisation.                                              *)
(***************************************************************************)
\* C1: with sidechain enabled, an activation pushes an output frame only
\* while it holds a sidechain frame of exactly the main frame's sample
\* count; when fewer samples are queued on the sidechain link (a short
\* remainder at sidechain end of stream included) it defers: nothing is
\* pushed, the main frame stays held, no sidechain frame is held and the
\* sidechain queue is left as it was.
C1_ExactSidechain ==
    (sidechain /\ act.kind = "activate") =>
        /\ act.pushed # <<>> =>
              /\ act.sc # NULL
              /\ act.sc.nb_samples = act.in.nb_samples
        /\ (act.sc_queued >= 0 /\ act.sc_queued < act.in.nb_samples /\ act.fail = 0) =>
              /\ act.stage = "defer"
              /\ act.pushed = <<>>
              /\ s_in = act.in
              /\ s_sc = NULL
              /\ queued_samples(links["sc"]) = act.sc_queued

\* a deferral on a short remainder at sidechain end of stream, after an
\* earlier main frame was processed with its sidechain chunk
C1_Witness ==
    /\ sidechain
    /\ act.kind = "activate"
    /\ act.stage = "defer"
    /\ act.sc_queued > 0
    /\ links["sc"].status_in # 0
    /\ outs > 0

\* C2: with sidechain enabled and no sidechain frame ever delivered, every
\* activation that starts with the main frame held keeps that frame held,
\* returns NotReady, pushes nothing and does not release the frame.  Stated
\* for the activations that neither forward a status nor pass a request on,
\* so that the result is the one written in activate itself.
C2_HeldMainReportsNotReady ==
    (/\ sidechain
     /\ act.kind = "activate"
     /\ pushedN["sc"].frames = 0
     /\ act.in0 # NULL
     /\ ~act.back /\ act.status_from = "none" /\ act.requested = "none") =>
        /\ s_in = act.in0
        /\ act.ret = FFERROR_NOT_READY
        /\ act.pushed = <<>>
        /\ <<act.in0.buf, act.in0.seq>> \notin freed.set

(***************************************************************************)
(* The link contract.                                                      *)
(***************************************************************************)
LinkNames == {"in", "sc", "out"}

\* C3: on every link, once status_in is set it keeps its code, no frame is
\* enqueued any more, and a push returns that code; while status_in is unset
\* a push appends the frame at the tail and returns 0.
C3_PushAfterStatus ==
    [][\A k \in LinkNames :
          /\ links[k].status_in # 0 =>
                /\ links'[k].status_in = links[k].status_in
                /\ Len(links'[k].fifo) <= Len(links[k].fifo)
                /\ (obs'.kind = "push" /\ obs'.link = k) =>
                       /\ obs'.ret = links[k].status_in
                       /\ links'[k].fifo = links[k].fifo
          /\ (links[k].status_in = 0 /\ k # "out" /\ obs'.kind = "push" /\ obs'.link = k) =>
                /\ obs'.ret = 0
                /\ Len(links'[k].fifo) = Len(links[k].fifo) + 1
                /\ SubSeq(links'[k].fifo, 1, Len(links[k].fifo)) = links[k].fifo
                /\ links'[k].fifo[Len(links'[k].fifo)].seq = pushedN'[k].frames
          /\ (k = "out" /\ outs' # outs) =>
                /\ links[k].status_in = 0
                /\ links'[k].fifo = Append(links[k].fifo, act'.pushed[1])
    ]_vars

\* a push has just been refused on a link that carries a status and still
\* queues a frame
C3_Witness ==
    /\ obs.kind = "push"
    /\ obs.ret # 0
    /\ obs.ret = links[obs.link].status_in
    /\ links[obs.link].fifo # <<>>

\* C4: a pull returns the head frame, popping it, whenever the queue is
\* non-empty, even with status_in set; otherwise the status_in code when one
\* is set; otherwise NotReady with frame_blocked_in marked.  On the node's
\* main input: a queued frame is taken before the status is looked at, the
\* status is forwarded only after every enqueued frame was taken, and
\* NotReady is returned only with the queue empty and no status set.
C4_PullPriority ==
    /\ [][obs'.kind = "pull" =>
            IF links["out"].fifo # <<>>
            THEN /\ obs'.ret = 1
                 /\ links'["out"].fifo = Tail(links["out"].fifo)
            ELSE IF links["out"].status_in # 0
            THEN /\ obs'.ret = links["out"].status_in
                 /\ links'["out"].fifo = <<>>
            ELSE /\ obs'.ret = FFERROR_NOT_READY
                 /\ links'["out"].frame_blocked_in]_vars
    /\ [][(/\ act'.kind = "activate" /\ ~act'.back /\ act'.fail = 0
           /\ s_in = NULL /\ links["in"].fifo # <<>>) =>
             /\ act'.took_in = Head(links["in"].fifo)
             /\ links'["in"].fifo = Tail(links["in"].fifo)]_vars
    /\ [](act.kind = "activate" =>
             /\ act.status_from = "in" => taken.main = pushedN["in"].frames
             /\ act.ret = FFERROR_NOT_READY =>
                   /\ links["in"].fifo = <<>>
                   /\ links["in"].status_in = 0)

\* the node has taken a main frame from a link whose status_in was set
C4_Witness ==
    /\ act.kind = "activate"
    /\ act.took_in # NULL
    /\ links["in"].status_in # 0

(***************************************************************************)
(* Status forwarding by the node.                                          *)
(***************************************************************************)
\* C5 as claimed: the node sets its output's status only when every relevant
\* input carries a status and no frame is pending (main queue empty, no main
\* frame held), with the received code and timestamp.
C5_StatusOnlyWhenAllInputsDone ==
    (act.kind = "activate" /\ act.status_from # "none") =>
        /\ \A k \in Inputs : links[k].status_in # 0
        /\ links["in"].fifo = <<>>
        /\ s_in = NULL
        /\ links["out"].status_in = links[act.status_from].status_in
        /\ links["out"].status_in_pts = links[act.status_from].status_in_pts

\* C5 as amended: the node sets its output's status only when the one input
\* it is waiting on carries a status and has an empty queue: the main input
\* when no main frame is held, the sidechain input when a main frame is held
\* and no sidechain frame could be taken for it.  The output's code and
\* timestamp are those of that input.
C5_StatusFromWaitedInput ==
    /\ [][(act'.kind = "activate"
           /\ links'["out"].status_in # links["out"].status_in) =>
              act'.status_from # "none"]_vars
    /\ [](act.kind = "activate" /\ act.status_from # "none" =>
             /\ act.status_from \in Inputs
             /\ links[act.status_from].status_in # 0
             /\ links[act.status_from].fifo = <<>>
             /\ links["out"].status_in = links[act.status_from].status_in
             /\ links["out"].status_in_pts = links[act.status_from].status_in_pts
             /\ act.status_from = "in" => s_in = NULL
             /\ act.status_from = "sc" => (sidechain /\ s_in # NULL /\ s_sc = NULL))

\* the sidechain's status closes the output while a main frame is held and
\* the main input carries no status
C5_Witness ==
    /\ act.kind = "activate"
    /\ act.status_from = "sc"
    /\ s_in # NULL
    /\ links["in"].status_in = 0
    /\ links["out"].status_in = links["sc"].status_in

(***************************************************************************)
(* Results of an activation.                                               *)
(***************************************************************************)
\* C6: no activation returns 0 while leaving every link (queue, status,
\* request flags) and both held-frame slots unchanged.  Stated for the
\* activations that find the output open, so that the result is the one
\* written in activate itself.
C6_ProgressOrNotReady ==
    (act.kind = "activate" /\ ~act.back /\ act.ret = 0) => act.progress

\* C7: the frame pushed downstream has the sample count of the main frame it
\* was produced from, in place as well as in a fresh buffer, and the channel
\* count fixed at output negotiation.
C7_OutputShape ==
    (act.kind = "activate" /\ act.pushed # <<>>) =>
        /\ act.in = (IF act.in0 # NULL THEN act.in0 ELSE act.took_in)
        /\ act.pushed[1].nb_samples = act.in.nb_samples
        /\ act.pushed[1].nb_channels = nb_out
        /\ act.pushed[1].nb_channels = s_nb_channels
        /\ act.pushed[1].buf = (IF act.writable THEN act.in.buf ELSE "new")
        /\ links["out"].fifo # <<>>
        /\ links["out"].fifo[Len(links["out"].fifo)] = act.pushed[1]

\* a frame of the largest size and channel count went out in a fresh buffer
C7_Witness ==
    /\ act.kind = "activate"
    /\ act.pushed # <<>>
    /\ ~act.writable
    /\ act.pushed[1].buf = "new"
    /\ act.pushed[1].nb_samples = MaxSamples
    /\ nb_out = MaxChannels

C9_OneToOneInOrder ==
    /\ act.kind = "activate" =>
          /\ act.took_in # NULL => act.took_in.seq = taken.main
          /\ act.took_sc # NULL => act.took_sc.seq = taken.sc
          /\ act.pushed # <<>> =>
                /\ act.in.seq = outs
                /\ act.pushed[1].seq = outs
                /\ act.pushed[1].off = act.in.off
                /\ sidechain =>
                      /\ act.sc.seq = outs
                      /\ act.sc.off = act.in.off
                      /\ act.sc.nb_samples = act.in.nb_samples
    /\ s_sc # NULL =>
          /\ s_in # NULL
          /\ s_sc.seq = s_in.seq
          /\ s_sc.off = s_in.off
    /\ taken.sc <= taken.main
    /\ outs <= taken.main
    /\ \A j \in 1..(Len(links["out"].fifo) - 1) :
          links["out"].fifo[j].seq < links["out"].fifo[j + 1].seq

\* the second output was produced from a sidechain chunk that starts inside
\* a sidechain frame
C9_Witness ==
    /\ sidechain
    /\ act.kind = "activate"
    /\ act.pushed # <<>>
    /\ outs = 2
    /\ act.sc.off = 1

(***************************************************************************)
(* The smoothing coefficient: get_coef applied to attack / release times   *)
(* and sample rates.                                                       *)
(***************************************************************************)
EvalCoef(x, sr) ==
    /\ coef' = [x |-> x, sr |-> sr, val |-> get_coef(x, sr)]
    /\ UNCHANGED <<links, sidechain, nb_out, format, phase, s_in, s_sc, s_cc,
                   s_cc_alloc, s_nb_channels, s_filter, freed, pushedN, outs,
                   taken, act, obs, heap, s_dattack, exec>>

NextCoef == \E x \in Times, sr \in SampleRates : EvalCoef(x, sr)

SpecCoef == Init /\ [][NextCoef]_vars

C11_OutputStageEmptiesSlots ==
    (act.kind = "activate" /\ act.stage = "filter_frame") =>
        /\ s_in = NULL
        /\ s_sc = NULL
        /\ act.sc # NULL => <<act.sc.buf, act.sc.seq>> \in freed.set
        /\ \/ <<act.in.buf, act.in.seq>> \in freed.set
           \/ act.pushed = <<act.in>>
        /\ Len(act.pushed) = 1

\* C12: the processing stage writes into the held input frame's buffer only
\* when that buffer is writable; when it is shared, the frame written to is
\* a fresh buffer that carries the input frame's metadata and sample count,
\* and the input's buffer is not the one written.
C12_CopyOnWrite ==
    (act.kind = "activate" /\ act.stage = "filter_frame" /\ act.out # NULL) =>
        /\ act.out = act.in => act.writable
        /\ act.writable => act.out = act.in
        /\ ~act.writable =>
              /\ act.out.buf = "new"
              /\ <<act.out.buf, act.out.seq>> # <<act.in.buf, act.in.seq>>
              /\ act.out.seq = act.in.seq
              /\ act.out.off = act.in.off
              /\ act.out.nb_samples = act.in.nb_samples
              /\ <<act.in.buf, act.in.seq>> \in freed.set

\* a shared input frame was processed into a fresh buffer and released
C12_Witness ==
    /\ act.kind = "activate"
    /\ act.stage = "filter_frame"
    /\ ~act.writable
    /\ act.out # NULL
    /\ act.out.buf = "new"
    /\ act.in.buf = "up"
    /\ act.pushed = <<act.out>>

(***************************************************************************)
(* Statuses.                                                               *)
(***************************************************************************)
\* C13: once the output link carries a status, an activation leaves its
\* status code and status timestamp as they are, pushes no frame and
\* forwards no other status onto it.
C13_StatusSticky ==
    [][(act'.kind = "activate" /\ links["out"].status_in # 0) =>
          /\ links'["out"].status_in = links["out"].status_in
          /\ links'["out"].status_in_pts = links["out"].status_in_pts
          /\ links'["out"].fifo = links["out"].fifo
          /\ outs' = outs
          /\ act'.pushed = <<>>
          /\ act'.status_from = "none"]_vars

\* an activation after the node forwarded the main input's failure code,
\* while the sidechain input carries another code
C13_Witness ==
    /\ sidechain
    /\ act.kind = "activate"
    /\ act.back
    /\ links["out"].status_in = AVERROR_EIO
    /\ links["in"].status_out = AVERROR_EIO
    /\ links["sc"].status_in = AVERROR_EOF

\* C14: an activation that starts with a status on the output link sets
\* that code as status_out of every input link of the node and returns: it
\* takes no frame, does not process and pushes nothing.  From then on the
\* input links keep that status_out, queue nothing, and a request on them
\* is refused with that code.
C14_DownstreamStatusGoesBack ==
    /\ [][(act'.kind = "activate" /\ links["out"].status_in # 0) =>
            /\ act'.back
            /\ act'.ret = 0
            /\ \A k \in Inputs :
                  /\ links'[k].status_out = links["out"].status_in
                  /\ links'[k].fifo = <<>>
                  /\ ff_request_frame(links'[k]) = links["out"].status_in
            /\ act'.took_in = NULL
            /\ act'.took_sc = NULL
            /\ taken' = taken
            /\ s_in' = s_in
            /\ s_sc' = s_sc
            /\ act'.stage = "none"
            /\ act'.pushed = <<>>
            /\ outs' = outs
            /\ freed' = freed]_vars
    /\ [][\A k \in Inputs :
            links[k].status_out # 0 =>
               /\ links'[k].status_out = links[k].status_out
               /\ links'[k].fifo = <<>>
               /\ ff_request_frame(links'[k]) = links[k].status_out]_vars

\* the output was closed while the node held a main frame and another main
\* frame was queued: both inputs are closed, the queued frame is gone
C14_Witness ==
    /\ sidechain
    /\ act.kind = "activate"
    /\ act.back
    /\ s_in # NULL
    /\ taken.main < pushedN["in"].frames
    /\ links["in"].fifo = <<>>
    /\ links["in"].status_out = links["out"].status_in
    /\ links["sc"].status_out = links["out"].status_in

(***************************************************************************)
(* Configuration, running, teardown.                                       *)
(***************************************************************************)
\* C15: the ChannelContext array and the ring buffers are allocated once, by
\* config_output; the array has the negotiated channel count and, like the
\* recorded channel count and the selected processing functions, does not
\* change until teardown, neither on an activation nor on a runtime
\* parameter update; the functions are those of the negotiated sample
\* format; frames are processed only between configuration and teardown.
C15_Lifecycle ==
    /\ [](s_cc_alloc =>
             /\ Len(s_cc) = nb_out
             /\ s_nb_channels = nb_out
             /\ s_filter = (IF format = "DBLP" THEN "double" ELSE "float"))
    /\ [](phase = "configured" =>
             /\ s_cc_alloc
             /\ \A ch \in 1..nb_out : s_cc[ch].queue /\ s_cc[ch].dqueue
             /\ heap.rings = (1..nb_out) \X {"queue", "dqueue"})
    /\ [][/\ nb_out' = nb_out
          /\ format' = format
          /\ (heap'.cc = "live" /\ heap.cc # "live") =>
                (heap.cc = "none" /\ phase = "init")
          /\ heap'.rings # heap.rings => (heap.rings = {} /\ phase = "init")
          /\ s_nb_channels # 0 => s_nb_channels' = s_nb_channels
          /\ s_filter # "none" => s_filter' = s_filter
          /\ (s_cc_alloc /\ phase' # "uninit") => s_cc' = s_cc]_vars
    /\ []((act.kind = "activate" /\ act.stage = "filter_frame") =>
             /\ phase \in {"configured", "failed"}
             /\ s_cc_alloc
             /\ s_filter # "none")

\* the attack option was set while the configured node had already processed
\* a frame of the largest channel count
C15_Witness ==
    /\ phase = "configured"
    /\ s_dattack # MaxTime
    /\ outs > 0
    /\ Len(s_cc) = MaxChannels
    /\ s_filter = "double"

(***************************************************************************)
(* The processing stage.                                                   *)
(***************************************************************************)
\* C16: the preparation pass has run, once, before any channel job
\* processes a channel; min(channel count, workers) jobs are submitted; the
\* held frames are released and the output frame is pushed only after every
\* job has finished its slice.
C16_PrepareJobsPush ==
    /\ (exec.pc \in {"running", "returned"}) =>
          /\ exec.shared = <<"prepare">>
          /\ exec.n = (IF exec.channels < exec.threads
                       THEN exec.channels ELSE exec.threads)
          /\ DOMAIN exec.pos = 0..(exec.n - 1)
    /\ (exec.pc \in {"idle", "entered", "prepared"}) =>
          /\ exec.by = <<>>
          /\ exec.n = 0
    /\ (exec.pushed \/ exec.released) =>
          /\ exec.pc = "returned"
          /\ \A ch \in 0..(exec.channels - 1) : exec.by[ch] # <<>>
          /\ \A j \in 0..(exec.n - 1) :
                exec.pos[j] = (exec.channels * (j + 1)) \div exec.n
    /\ exec.pc = "returned" => (exec.pushed /\ exec.released)

\* a frame of the largest channel count went out after as many jobs as
\* there are workers had run
C16_Witness ==
    /\ exec.pc = "returned"
    /\ exec.pushed
    /\ exec.channels = ExecChannels
    /\ exec.threads = ExecThreads
    /\ exec.n = ExecThreads

\* C17: in every interleaving of the channel jobs each channel is processed
\* by at most one job, by exactly one once the jobs are done, and by the job
\* whose slice it lies in; the shared coefficients are written by the
\* preparation pass only; the result is, for every channel, the value
\* computed from the attack option read by the preparation pass, whatever
\* the interleaving and the worker count.
C17_DisjointJobs ==
    (exec.pc \in {"running", "returned"}) =>
        /\ \A ch \in 0..(exec.channels - 1) :
              /\ Len(exec.by[ch]) <= 1
              /\ exec.by[ch] # <<>> =>
                    /\ (exec.channels * exec.by[ch][1]) \div exec.n <= ch
                    /\ ch < (exec.channels * (exec.by[ch][1] + 1)) \div exec.n
                    /\ exec.pos[exec.by[ch][1]] > ch
                    /\ exec.out[ch] = exec.da
              /\ exec.by[ch] = <<>> => exec.out[ch] = 0
              /\ exec.pc = "returned" => Len(exec.by[ch]) = 1
        /\ \A i \in 1..Len(exec.shared) : exec.shared[i] = "prepare"
        /\ exec.da = get_coef(exec.attack, MaxRate)
        /\ exec.pc = "returned" =>
              exec.out = [ch \in 0..(exec.channels - 1) |->
                             get_coef(exec.attack, MaxRate)]

\* two jobs are half way through their slices of a frame with more
\* channels than workers, after the attack option was changed
C17_Witness ==
    /\ exec.pc = "running"
    /\ exec.n >= 2
    /\ exec.channels > exec.n
    /\ exec.attack # MaxTime
    /\ exec.by[0] # <<>>
    /\ exec.by[exec.channels - 1] # <<>>
    /\ \E ch \in 0..(exec.channels - 1) : exec.by[ch] = <<>>

(***************************************************************************)
(* Ownership of frames and buffers.                                        *)
(***************************************************************************)
\* C18: a held-frame slot is empty or references a frame that was not
\* released, and no frame is released twice.
C18_NoUseAfterRelease ==
    /\ s_in # NULL => <<s_in.buf, s_in.seq>> \notin freed.set
    /\ s_sc # NULL => <<s_sc.buf, s_sc.seq>> \notin freed.set
    /\ freed.twice = {}

\* C19: between activations a sidechain frame is held only while a main
\* frame is held, the sidechain slot is empty, and the main slot is
\* non-empty only when sidechain is enabled.
C19_SlotsBetweenActivations ==
    /\ s_sc # NULL => s_in # NULL
    /\ s_sc = NULL
    /\ s_in # NULL => sidechain

\* C20: after a failed allocation of the ChannelContext array the recorded
\* channel count is 0; after a failed ring-buffer allocation the channels
\* behind the failing one hold no buffers; teardown reads the array only
\* when it was allocated and releases every allocated ring buffer and the
\* array.
C20_TeardownSafe ==
    /\ (phase # "uninit" /\ ~s_cc_alloc) =>
          /\ s_nb_channels = 0
          /\ heap.cc = "none"
          /\ heap.rings = {}
    /\ (phase = "config_failed" /\ s_cc_alloc) =>
          \E ch \in 1..nb_out :
             /\ ~(s_cc[ch].queue /\ s_cc[ch].dqueue)
             /\ \A c2 \in 1..(ch - 1) : s_cc[c2].queue /\ s_cc[c2].dqueue
             /\ \A c2 \in (ch + 1)..nb_out : ~s_cc[c2].queue /\ ~s_cc[c2].dqueue
    /\ phase = "uninit" =>
          /\ ~heap.null_deref
          /\ heap.released = heap.rings
          /\ heap.cc \in {"none", "released"}
          /\ heap.cc = "none" => heap.rings = {}
          /\ ~s_cc_alloc

\* teardown after the ring-buffer allocation of the last channel failed:
\* the buffers allocated before it were released
C20_Witness ==
    /\ phase = "uninit"
    /\ heap.cc = "released"
    /\ heap.released # {}
    /\ <<MaxChannels, "queue">> \notin heap.released
    /\ <<MaxChannels, "dqueue">> \in heap.released

====
